---------------------------- MODULE Spec2Model ----------------------------
(***************************************************************************)
(* tally42: the schema migration engine (core/migration.rs), the database  *)
(* handle (db.rs) and the content-addressed statement store                *)
(* (core/user_data.rs), as state machines over one database and one data   *)
(* directory.                                                              *)
(*                                                                         *)
(* Text (migration names, file names) is a sequence of character codes.    *)
(* Engine and file-system calls whose Result the code propagates with `?`  *)
(* take their outcome as an input of the action.                           *)
(***************************************************************************)
EXTENDS Integers, Sequences, FiniteSets, TLC

VARIABLES
    bundle,       \* the migration files compiled into the program
    ledgerTable,  \* schema_migrations exists
    ledger,       \* schema_migrations rows: version -> name
    applied,      \* version -> number of times its SQL batch ran to completion
    runs,         \* number of MigrationRunner::run calls made so far
    lastRun,      \* the most recent MigrationRunner::run call and what it did
    okCatalogs,   \* catalogs for which run has returned Ok on this database
    soleCatalog,  \* <<c>> while every run so far was of c and returned Ok
    lastOpen,     \* the most recent Db::open / Db::open_for_tests call
    dataDir,      \* the data directory exists
    stmtDir,      \* <data dir>/statements exists
    dbFile,       \* <data dir>/tally42.db exists
    accounts,     \* rows of the accounts table
    statements,   \* rows of the statements table
    files,        \* the statements directory: file name -> content
    ingested,     \* digests for which add_statement has returned Ok
    calls,        \* number of add_statement calls made so far
    call,         \* per caller: the add_statement call in progress or just returned
    lastCall      \* the most recent call of a function of the library and its result

migVars == <<bundle, ledgerTable, ledger, applied, runs, lastRun, okCatalogs,
             soleCatalog, lastOpen>>

storeVars == <<dataDir, stmtDir, dbFile, accounts, statements, files, ingested,
               calls, call>>

libVars == <<lastCall>>

vars == <<migVars, storeVars, libVars>>

----------------------------------------------------------------------------
(* Bounds *)

MaxRuns == 3
MaxCalls == 3

\* no call yet
NoCall == [op |-> "none"]

----------------------------------------------------------------------------
(* Text *)

Range(s) == {s[i] : i \in 1..Len(s)}

RECURSIVE LexLess(_, _)
LexLess(a, b) ==
    IF a = <<>> THEN b # <<>>
    ELSE IF b = <<>> THEN FALSE
    ELSE IF Head(a) # Head(b) THEN Head(a) < Head(b)
    ELSE LexLess(Tail(a), Tail(b))

ChZero == 48
ChUnderscore == 95
SqlSuffix == <<46, 115, 113, 108>>

NameA == <<97>>
NameB == <<98>>
Names == {NameA, NameB}

\* "<digits>_<name>.sql": the version is written with or without zero padding
FileNameOf(padded, v, name) ==
    (IF padded THEN <<ChZero, ChZero, ChZero>> ELSE <<>>)
        \o <<ChZero + v>> \o <<ChUnderscore>> \o name \o SqlSuffix

Migration(padded, v, name) ==
    [version |-> v, name |-> name, file_name |-> FileNameOf(padded, v, name)]

----------------------------------------------------------------------------
(* Migration::from_source: sort, then reject equal adjacent versions *)

\* MigrationLess with the name compared before the version
MigrationLessByName(a, b) ==
    \/ LexLess(a.name, b.name)
    \/ a.name = b.name /\ a.version < b.version
    \/ a.version = b.version /\ a.name = b.name /\ LexLess(a.file_name, b.file_name)

MigrationLess(a, b) ==
    \/ a.version < b.version
    \/ a.version = b.version /\ LexLess(a.name, b.name)
    \/ a.version = b.version /\ a.name = b.name /\ LexLess(a.file_name, b.file_name)

RECURSIVE InsertSorted(_, _)
InsertSorted(m, s) ==
    IF s = <<>> THEN <<m>>
    ELSE IF MigrationLess(m, Head(s)) THEN <<m>> \o s
    ELSE <<Head(s)>> \o InsertSorted(m, Tail(s))

RECURSIVE SortMigrations(_)
SortMigrations(s) ==
    IF s = <<>> THEN <<>> ELSE InsertSorted(Head(s), SortMigrations(Tail(s)))

\* DuplicateAt comparing only names written with the same padding
DuplicateAtSamePadding(s) ==
    {i \in 1..(Len(s) - 1) : /\ s[i].version = s[i + 1].version
                             /\ Len(s[i].file_name) - Len(s[i].name)
                                  = Len(s[i + 1].file_name) - Len(s[i + 1].name)}

DuplicateAt(s) == {i \in 1..(Len(s) - 1) : s[i].version = s[i + 1].version}

\* parsed: the Migration of every listed file, in listing order
FromSource(parsed) ==
    LET sorted == SortMigrations(parsed)
        dups == DuplicateAt(sorted)
    IN  IF dups # {}
        THEN [ok |-> FALSE,
              error |-> <<"DuplicateVersion",
                          sorted[CHOOSE i \in dups : \A j \in dups : i <= j].version>>,
              migrations |-> <<>>]
        ELSE [ok |-> TRUE, error |-> <<>>, migrations |-> sorted]

----------------------------------------------------------------------------
(* MigrationRunner::run *)

\* what the engine or the source answers for one migration that is applied:
\* "content" read_file_utf8 fails, "sql" execute_batch fails, "insert" the
\* ledger INSERT fails, "ok" none does
Outcomes == {"ok", "content", "sql", "insert"}

\* a run stops at its first failure: the answers for n migrations are all "ok",
\* or "ok" up to one of them
Answers(n) ==
    {[i \in 1..n |-> IF i = f[1] THEN f[2] ELSE "ok"] :
        f \in ({0} \X {"ok"}) \cup ((1..n) \X (Outcomes \ {"ok"}))}

Event(op, i, m, led) ==
    [op |-> op, idx |-> i, version |-> m.version, recorded |-> m.version \in DOMAIN led]

\* AlreadyApplied that finds no version in the ledger
AlreadyAppliedNever(led, m) == FALSE

\* AlreadyApplied that takes every version up to the highest recorded as applied
AlreadyAppliedUpToHighest(led, m) == \E v \in DOMAIN led : m.version <= v

\* AlreadyApplied with the lookup keyed on version and name
AlreadyAppliedNamed(led, m) == m.version \in DOMAIN led /\ led[m.version] = m.name

AlreadyApplied(led, m) == m.version \in DOMAIN led

ExecuteBatch(app, m) == [app EXCEPT ![m.version] = @ + 1]

\* InsertLedgerRow that writes the ledger anew with the one row
InsertLedgerRowAlone(led, m) == [v \in {m.version} |-> m.name]

\* InsertLedgerRow with the row keyed by the wrong column
InsertLedgerRowMisfiled(led, m) == [v \in DOMAIN led \cup {m.version + 1} |->
                                      IF v = m.version + 1 THEN m.name ELSE led[v]]

InsertLedgerRow(led, m) == [v \in DOMAIN led \cup {m.version} |->
                              IF v = m.version THEN m.name ELSE led[v]]

\* one turn of the loop for a migration that is not in the ledger
\* ApplyOne with the execution failure swallowed: the loop goes on
ApplyOneKeepsGoing(st, i, m, outcome) ==
    LET read == [st EXCEPT !.events = Append(@, Event("read", i, m, st.ledger))]
        exec == [read EXCEPT !.events = Append(@, Event("exec", i, m, st.ledger))]
        done == [exec EXCEPT !.applied = ExecuteBatch(@, m)]
    IN  IF outcome = "content"
        THEN [read EXCEPT !.result = "Content", !.failedAt = i, !.failedOp = "read"]
        ELSE IF outcome = "sql"
        THEN [exec EXCEPT !.failedAt = i, !.failedOp = "exec"]
        ELSE IF outcome = "insert"
        THEN [done EXCEPT !.events = Append(@, Event("insert", i, m, st.ledger)),
                          !.result = "Sql", !.failedAt = i, !.failedOp = "insert"]
        ELSE [done EXCEPT !.events = Append(@, Event("insert", i, m, st.ledger)),
                          !.ledger = InsertLedgerRow(@, m)]

ApplyOne(st, i, m, outcome) ==
    LET read == [st EXCEPT !.events = Append(@, Event("read", i, m, st.ledger))]
        exec == [read EXCEPT !.events = Append(@, Event("exec", i, m, st.ledger))]
        done == [exec EXCEPT !.applied = ExecuteBatch(@, m)]
    IN  IF outcome = "content"
        THEN [read EXCEPT !.result = "Content", !.failedAt = i, !.failedOp = "read"]
        ELSE IF outcome = "sql"
        THEN [exec EXCEPT !.result = "Sql", !.failedAt = i, !.failedOp = "exec"]
        ELSE IF outcome = "insert"
        THEN [done EXCEPT !.events = Append(@, Event("insert", i, m, st.ledger)),
                          !.result = "Sql", !.failedAt = i, !.failedOp = "insert"]
        ELSE [done EXCEPT !.events = Append(@, Event("insert", i, m, st.ledger)),
                          !.ledger = InsertLedgerRow(@, m)]

\* the loop of run taken from the last catalog entry to the first
RECURSIVE RunLoopBackwards(_, _, _, _)
RunLoopBackwards(st, migrations, oc, i) ==
    IF i > Len(migrations) THEN [st EXCEPT !.result = "Ok"]
    ELSE LET j == Len(migrations) + 1 - i
             m == migrations[j]
             looked == [st EXCEPT !.events = Append(@, Event("lookup", j, m, st.ledger))]
         IN  IF AlreadyApplied(st.ledger, m)
             THEN RunLoopBackwards(looked, migrations, oc, i + 1)
             ELSE LET next == ApplyOne(looked, j, m, oc[j])
                  IN  IF next.result # "running" THEN next
                      ELSE RunLoopBackwards(next, migrations, oc, i + 1)

RECURSIVE RunLoop(_, _, _, _)
RunLoop(st, migrations, oc, i) ==
    IF i > Len(migrations) THEN [st EXCEPT !.result = "Ok"]
    ELSE LET m == migrations[i]
             looked == [st EXCEPT !.events = Append(@, Event("lookup", i, m, st.ledger))]
         IN  IF AlreadyApplied(st.ledger, m)
             THEN RunLoop(looked, migrations, oc, i + 1)
             ELSE LET next == ApplyOne(looked, i, m, oc[i])
                  IN  IF next.result # "running" THEN next
                      ELSE RunLoop(next, migrations, oc, i + 1)

\* run(source, migrations) on a database [ledgerTable, ledger, applied]
Run(db, migrations, oc) ==
    RunLoop([ledgerTable |-> TRUE, ledger |-> db.ledger, applied |-> db.applied,
             events |-> <<>>, result |-> "running", failedAt |-> 0, failedOp |-> "none"],
            migrations, oc, 1)

----------------------------------------------------------------------------
(* Db::open, Db::open_for_tests *)

\* from_connection with the run's error dropped
FromConnectionUnchecked(db, listed, oc) ==
    LET found == FromSource(listed)
        ran == Run(db, found.migrations, oc)
    IN  IF ~found.ok
        THEN [result |-> "DiscoverMigrations", handle |-> FALSE, ran |-> FALSE,
              catalog |-> <<>>, run |-> Run(db, <<>>, <<>>)]
        ELSE [result |-> "Ok", handle |-> TRUE, ran |-> TRUE,
              catalog |-> found.migrations, run |-> ran]

\* from_connection: a handle only when discovery and the run both succeed
FromConnection(db, listed, oc) ==
    LET found == FromSource(listed)
        ran == Run(db, found.migrations, oc)
    IN  IF ~found.ok
        THEN [result |-> "DiscoverMigrations", handle |-> FALSE, ran |-> FALSE,
              catalog |-> <<>>, run |-> Run(db, <<>>, <<>>)]
        ELSE IF ran.result # "Ok"
        THEN [result |-> "RunMigrations", handle |-> FALSE, ran |-> TRUE,
              catalog |-> found.migrations, run |-> ran]
        ELSE [result |-> "Ok", handle |-> TRUE, ran |-> TRUE,
              catalog |-> found.migrations, run |-> ran]

----------------------------------------------------------------------------
(* The database the runner works on *)

Versions == {1, 2}

EmbeddedCount == 3

\* the bundled migrations directory, as listed (unordered)
GoodBundle == <<Migration(TRUE, 2, NameA), Migration(TRUE, 1, NameA),
                Migration(TRUE, 3, NameA)>>

\* a build whose migrations directory holds 0001_a.sql and 1_b.sql
ClashBundle == <<Migration(FALSE, 1, NameB), Migration(TRUE, 1, NameA),
                 Migration(TRUE, 2, NameA)>>

Bundles == {GoodBundle, ClashBundle}

AllVersions == Versions \cup 1..EmbeddedCount

\* the files run is given: 000<v>_a.sql for every version, and 1_b.sql
Pool == {Migration(TRUE, v, NameA) : v \in Versions} \cup {Migration(FALSE, 1, NameB)}

\* the slices run is called with: empty, one file, two files in either order
\* (two files of one version included)
Catalogs ==
    {<<>>} \cup {<<a>> : a \in Pool} \cup {<<a, b>> : <<a, b>> \in {p \in Pool \X Pool : p[1] # p[2]}}

UniqueVersions(c) == \A i, j \in 1..Len(c) : c[i].version = c[j].version => i = j

CatalogVersions(c) == {c[i].version : i \in 1..Len(c)}

CurrentDb == [ledgerTable |-> ledgerTable, ledger |-> ledger, applied |-> applied]

NoRun == [catalog |-> <<>>, result |-> "none", events |-> <<>>, failedAt |-> 0,
          failedOp |-> "none", before |-> << >>, okBefore |-> FALSE, unreadable |-> {}]

NoOpen == [result |-> "none", handle |-> FALSE]

MigInit ==
    /\ bundle \in Bundles
    /\ ledgerTable = FALSE
    /\ ledger = << >>
    /\ applied = [v \in AllVersions |-> 0]
    /\ runs = 0
    /\ lastRun = NoRun
    /\ okCatalogs = {}
    /\ soleCatalog = <<"none">>
    /\ lastOpen = NoOpen
    /\ dataDir = FALSE
    /\ stmtDir = FALSE
    /\ dbFile = FALSE
    /\ accounts = {}
    /\ statements = {}
    /\ files = << >>
    /\ ingested = {}
    /\ calls = 0
    /\ call = << >>
    /\ lastCall = NoCall

\* the bookkeeping of one completed run
Recorded(c, r, oc) ==
    /\ ledgerTable' = r.ledgerTable
    /\ ledger' = r.ledger
    /\ applied' = r.applied
    /\ runs' = runs + 1
    /\ lastRun' = [catalog |-> c, result |-> r.result, events |-> r.events,
                   failedAt |-> r.failedAt, failedOp |-> r.failedOp,
                   before |-> ledger, okBefore |-> c \in okCatalogs,
                   unreadable |-> {i \in DOMAIN oc : oc[i] = "content"}]
    /\ okCatalogs' = IF r.result = "Ok" THEN okCatalogs \cup {c} ELSE okCatalogs
    /\ soleCatalog' = IF r.result = "Ok" /\ soleCatalog \in {<<"none">>, <<"only", c>>}
                      THEN <<"only", c>> ELSE <<"mixed">>

\* MigrationRunner::new(&conn).run(&source, &migrations)
RunCall(c, oc) ==
    /\ runs < MaxRuns
    /\ Recorded(c, Run(CurrentDb, c, oc), oc)
    /\ UNCHANGED <<bundle, lastOpen, storeVars, libVars>>

\* Connection::open fails: DbError::Open
OpenFails ==
    /\ runs < MaxRuns
    /\ lastOpen' = [result |-> "Open", handle |-> FALSE]
    /\ UNCHANGED <<bundle, ledgerTable, ledger, applied, runs, lastRun, okCatalogs,
                   soleCatalog, storeVars, libVars>>

\* discovery of the bundled migrations fails: DbError::DiscoverMigrations
OpenDiscoverFails ==
    /\ runs < MaxRuns
    /\ ~FromSource(bundle).ok
    /\ LET o == FromConnection(CurrentDb, bundle, << >>)
       IN  /\ ~o.ran
           /\ lastOpen' = [result |-> o.result, handle |-> o.handle]
    /\ UNCHANGED <<bundle, ledgerTable, ledger, applied, runs, lastRun, okCatalogs,
                   soleCatalog, storeVars, libVars>>

\* the bundled catalog is run: a handle, or DbError::RunMigrations
OpenRuns(oc) ==
    /\ runs < MaxRuns
    /\ FromSource(bundle).ok
    /\ LET o == FromConnection(CurrentDb, bundle, oc)
       IN  /\ o.ran
           /\ lastOpen' = [result |-> o.result, handle |-> o.handle]
           /\ Recorded(o.catalog, o.run, oc)
    /\ UNCHANGED <<bundle, storeVars, libVars>>

MigNext ==
    \/ \E c \in Catalogs : \E oc \in Answers(Len(c)) : RunCall(c, oc)
    \/ OpenFails
    \/ OpenDiscoverFails
    \/ \E oc \in Answers(Len(bundle)) : OpenRuns(oc)

Spec == MigInit /\ [][MigNext]_vars

----------------------------------------------------------------------------
(* Properties of the migration runner and of Db::open *)

RunEvents(ops) == {i \in 1..Len(lastRun.events) : lastRun.events[i].op \in ops}

\* C1: once run has returned Ok for a catalog, a further run of that catalog
\* returns Ok, reads and executes nothing, inserts no ledger row and leaves
\* the ledger as it was; on a fresh database on which only one catalog (of
\* unique versions) was ever run, with Ok every time, every version of it was
\* executed exactly once and the ledger has as many rows as the catalog.
C1_RunIdempotent ==
    /\ lastRun.okBefore =>
          /\ lastRun.result = "Ok"
          /\ RunEvents({"read", "exec", "insert"}) = {}
          /\ ledger = lastRun.before
    /\ (soleCatalog[1] = "only" /\ UniqueVersions(soleCatalog[2])) =>
          /\ Cardinality(DOMAIN ledger) = Len(soleCatalog[2])
          /\ \A v \in CatalogVersions(soleCatalog[2]) : applied[v] = 1

\* the third run in a row of one two-file catalog, each run Ok
C1_Witness ==
    /\ runs = 3
    /\ lastRun.okBefore
    /\ soleCatalog[1] = "only"
    /\ Len(lastRun.catalog) = 2
    /\ UniqueVersions(lastRun.catalog)

\* C2: no migration's SQL is executed while the ledger holds a row for its
\* version, whatever runs (failed ones included) came before.
C2_NeverReapplied ==
    \A i \in RunEvents({"exec"}) : ~lastRun.events[i].recorded

\* a run after other runs that skips a recorded version and executes another
C2_Witness ==
    /\ runs >= 2
    /\ soleCatalog = <<"mixed">>
    /\ RunEvents({"exec"}) # {}
    /\ \E i \in RunEvents({"lookup"}) : lastRun.events[i].recorded

\* C3: after a run has returned, the versions in the ledger are exactly the
\* versions whose SQL batch has run to completion.
C3_LedgerMatchesExecuted ==
    runs > 0 => DOMAIN ledger = {v \in AllVersions : applied[v] > 0}

\* C4: a run that fails reading or executing a migration returns that error
\* at once: the migration is read once and executed at most once, it is not
\* in the ledger, nothing after it in the catalog is looked up, read, executed
\* or recorded, and the rows the ledger gained are those of the entries
\* before it.
C4_FailureHalts ==
    lastRun.failedOp \in {"read", "exec"} =>
        LET k == lastRun.failedAt
            c == lastRun.catalog
        IN  /\ lastRun.result = (IF lastRun.failedOp = "read" THEN "Content" ELSE "Sql")
            /\ c[k].version \notin DOMAIN ledger
            /\ \A i \in 1..Len(lastRun.events) : lastRun.events[i].idx <= k
            /\ Cardinality({i \in RunEvents({"read"}) : lastRun.events[i].idx = k}) = 1
            /\ Cardinality({i \in RunEvents({"exec"}) : lastRun.events[i].idx = k})
                   = (IF lastRun.failedOp = "read" THEN 0 ELSE 1)
            /\ {i \in RunEvents({"insert"}) : lastRun.events[i].idx = k} = {}
            /\ DOMAIN ledger = DOMAIN lastRun.before \cup {c[j].version : j \in 1..(k - 1)}
            /\ \A v \in DOMAIN lastRun.before : ledger[v] = lastRun.before[v]

\* the second of three migrations fails to execute after the first was applied
C4_Witness ==
    /\ lastRun.failedOp = "exec"
    /\ lastRun.failedAt = 2
    /\ Len(lastRun.catalog) = 3
    /\ lastRun.catalog[1].version \in DOMAIN ledger \ DOMAIN lastRun.before

BundleVersions == {bundle[i].version : i \in 1..Len(bundle)}

\* C5: a Db handle is returned only for a database whose ledger holds every
\* bundled version, and none is returned when opening, discovery or the run
\* fails.
C5_HandleImpliesMigrated ==
    /\ lastOpen.handle => BundleVersions \subseteq DOMAIN ledger
    /\ lastOpen.handle <=> lastOpen.result = "Ok"
    /\ lastRun.result # "Ok" /\ lastOpen.result = "RunMigrations" => ~lastOpen.handle

\* a handle obtained on a database that an earlier, failed run left half migrated
C5_Witness ==
    /\ lastOpen.handle
    /\ runs >= 2
    /\ \E v \in BundleVersions : applied[v] = 2


----------------------------------------------------------------------------
(* The user data directory: core/user_data.rs *)

\* Option<T>
None == << >>
Some(x) == <<x>>

\* the bytes of the documents that are ingested
BytesA == <<1>>
BytesB == <<1, 2>>
Contents == {BytesA, BytesB}

\* format!("{:x}", Sha256::digest(bytes)): a code that no two of the contents
\* share, computed from every byte and the length
RECURSIVE Sha256Hex(_)
Sha256Hex(bytes) ==
    IF bytes = <<>> THEN 1 ELSE 3 * Sha256Hex(Tail(bytes)) + Head(bytes)

ExtPdf == <<112, 100, 102>>

\* Path::extension of the source path: none ("statement"), empty
\* ("statement."), "pdf"
SourceExtensions == {None, Some(<<>>), Some(ExtPdf)}

\* the source paths add_statement is called with; exists = FALSE: no such file
Sources ==
    {[exists |-> TRUE, ext |-> e, bytes |-> b] : e \in SourceExtensions, b \in Contents}
        \cup {[exists |-> FALSE, ext |-> Some(ExtPdf), bytes |-> <<>>]}

\* file names in the statements directory
StoredName(hash, ext) == <<"stored", hash, ext>>
\* a temporary name inside the digest-named files: the copy is written in place
TempNameInPlace(token) == <<"stored", token, None>>

TempName(token) == <<"tmp", token>>

\* a comparison of stems that finds no file
StemMatchesNothing(name, file_hash) == FALSE

\* Path::file_stem(name) == file_hash: the stem of "<hash>.<ext>" and of "<hash>"
\* is <hash>; ".tmp-statement-<uuid>" has no '.' but the leading one, is its
\* own stem and is no digest
StemMatches(name, file_hash) == name[1] = "stored" /\ name[2] = file_hash

\* statement_file_path_for_source with the source's extension dropped
StatementFilePathBare(file_hash, src) == StoredName(file_hash, None)

\* statement_file_path_for_source
StatementFilePathForSource(file_hash, src) ==
    IF src.ext # None /\ src.ext[1] # <<>>
    THEN StoredName(file_hash, src.ext)
    ELSE StoredName(file_hash, None)

\* find_statement_file_path with the directory scan left out
FindExactOnly(dir, file_hash) ==
    IF StoredName(file_hash, None) \in DOMAIN dir
    THEN {StoredName(file_hash, None)}
    ELSE {}

\* find_statement_file_path: the paths it may return (read_dir lists in no
\* fixed order); empty when it returns None
FindStatementFilePath(dir, file_hash) ==
    IF StoredName(file_hash, None) \in DOMAIN dir
    THEN {StoredName(file_hash, None)}
    ELSE {n \in DOMAIN dir : StemMatches(n, file_hash)}

WriteFile(dir, name, content) ==
    [n \in DOMAIN dir \cup {name} |-> IF n = name THEN content ELSE dir[n]]

\* std::fs::remove_file that leaves the file where it is
RemoveFileNoop(dir, name) == dir

RemoveFile(dir, name) == [n \in DOMAIN dir \ {name} |-> dir[n]]

\* std::fs::rename: the target is replaced when it exists
RenameFile(dir, from, to) == WriteFile(RemoveFile(dir, from), to, dir[from])

\* a token that is the same in every call
FreshTokenFixed(dir) == 1

\* Uuid::new_v4 for the temporary file and for the statement id: a value not in use
FreshToken(dir) ==
    CHOOSE t \in 1..(Cardinality(DOMAIN dir) + 1) : TempName(t) \notin DOMAIN dir

FreshStatementId(rows) ==
    CHOOSE i \in 1..(Cardinality(rows) + 1) : \A r \in rows : r.id # i

AccountIds == {"A1", "A2"}
Institutions == {"Chase"}

\* AddStatementInput (period_start, period_end and currency travel with institution)
AddStatementInputs ==
    [institution : Institutions, account_id : AccountIds, replaced_by : {None}]

\* the INSERT of create_statement with foreign keys not enforced
StatementInsertUnchecked(accts, row) == TRUE

\* the INSERT of create_statement: account_id must reference an account
StatementInsertAccepted(accts, row) == \E a \in accts : a.id = row.account_id

StatementRow(id, input, file_hash, file_size) ==
    [id |-> id, institution |-> input.institution, account_id |-> input.account_id,
     file_hash |-> file_hash, file_size |-> file_size, replaced_by |-> input.replaced_by]

\* Db::create_account: the INSERT fails on a taken id, on a parent that is no
\* account (the row may name itself), and on a (parent_id, name) pair that an
\* account with a parent has; rows without a parent never collide, NULLs
\* being distinct in a UNIQUE constraint
AccountInsertAccepted(accts, row) ==
    /\ \A a \in accts : a.id # row.id
    /\ row.parent_id # None =>
          \/ \E a \in accts : a.id = row.parent_id[1]
          \/ row.parent_id[1] = row.id
    /\ row.parent_id # None =>
          \A a \in accts : ~(a.parent_id = row.parent_id /\ a.name = row.name)

\* created_at TEXT NOT NULL DEFAULT (datetime('now')): "2026"
DatetimeNow == <<50, 48, 50, 54>>

\* AccountRow with the name and the note interchanged
AccountRowMixedUp(id, parent_id, name, currency, note) ==
    [id |-> id, parent_id |-> parent_id, name |-> note, currency |-> currency,
     is_closed |-> FALSE, created_at |-> DatetimeNow, note |-> name]

AccountRow(id, parent_id, name, currency, note) ==
    [id |-> id, parent_id |-> parent_id, name |-> name, currency |-> currency,
     is_closed |-> FALSE, created_at |-> DatetimeNow, note |-> note]

Procs == {1, 2}

IdleCall ==
    [pc |-> "idle", src |-> None, input |-> None, temp |-> None, hash |-> 0,
     size |-> 0, final |-> None, stmt_id |-> 0, insert |-> "none", cleanup |-> "none",
     result |-> <<"none">>, pre |-> None]

Snapshot ==
    [dataDir |-> dataDir, stmtDir |-> stmtDir, dbFile |-> dbFile,
     ledgerTable |-> ledgerTable, ledger |-> ledger, files |-> files,
     statements |-> statements, ingested |-> ingested]

Migrated == ledgerTable /\ BundleVersions \subseteq DOMAIN ledger

InCall(p) == call[p].pc \notin {"idle", "done", "crashed"}

\* add_statement has returned and no call is in progress
Returned(p) == call[p].pc = "done"

Returns(p, result) == call' = [call EXCEPT ![p].pc = "done", ![p].result = result]

Goes(p, pc) == call' = [call EXCEPT ![p].pc = pc]

migGhost == <<bundle, runs, lastRun, okCatalogs, soleCatalog, lastOpen>>

StoreInit ==
    /\ bundle = GoodBundle
    /\ ledgerTable = FALSE
    /\ ledger = << >>
    /\ applied = [v \in AllVersions |-> 0]
    /\ runs = 0
    /\ lastRun = NoRun
    /\ okCatalogs = {}
    /\ soleCatalog = <<"none">>
    /\ lastOpen = NoOpen
    /\ dataDir = FALSE
    /\ stmtDir = FALSE
    /\ dbFile = FALSE
    /\ accounts = {}
    /\ statements = {}
    /\ files = << >>
    /\ ingested = {}
    /\ calls = 0
    /\ call = [p \in Procs |-> IdleCall]
    /\ lastCall = NoCall

\* what open_db meets: "mkdir_data", "mkdir_statements" a create_dir_all fails,
\* "open" Connection::open fails, else the answers the migration run gets
\* (none fails, or the second bundled migration fails to execute)
PrepareOutcomes ==
    {<<"mkdir_data">>, <<"mkdir_statements">>, <<"open">>}
        \cup {<<"run", oc>> : oc \in {a \in Answers(Len(GoodBundle)) :
                                        a[1] = "ok" /\ a[2] \in {"ok", "sql"}}}

\* UserDataManager::open_db: the directories, the database file, the migrations
OpenDb(o) ==
    LET got == FromConnection(CurrentDb, bundle, IF o[1] = "run" THEN o[2] ELSE << >>)
    IN  [dataDir |-> dataDir \/ o[1] # "mkdir_data",
         stmtDir |-> stmtDir \/ o[1] \notin {"mkdir_data", "mkdir_statements"},
         dbFile |-> dbFile \/ o[1] = "run",
         db |-> IF o[1] = "run" THEN got.run ELSE CurrentDb,
         ok |-> o[1] = "run" /\ got.handle,
         error |-> IF o[1] \in {"mkdir_data", "mkdir_statements"} THEN "CreateDataDir"
                   ELSE "OpenDb"]

OpenedDb(r) ==
    /\ dataDir' = r.dataDir
    /\ stmtDir' = r.stmtDir
    /\ dbFile' = r.dbFile
    /\ ledgerTable' = r.db.ledgerTable
    /\ ledger' = r.db.ledger
    /\ applied' = r.db.applied

\* UserDataManager::init: open_db, and the handle is dropped
InitCall(o) ==
    /\ \A p \in Procs : ~InCall(p)
    /\ OpenedDb(OpenDb(o))
    /\ lastCall' = [op |-> "init", pre |-> Snapshot, met |-> o[1],
                    result |-> IF OpenDb(o).ok THEN <<"Ok">> ELSE <<OpenDb(o).error>>]
    /\ UNCHANGED <<migGhost, accounts, statements, files, ingested, calls, call>>

\* delete_db that reports a missing database file as an error
DeleteDbResultStrict(exists, o) ==
    IF exists /\ o = "ok" THEN <<"Ok", TRUE>> ELSE <<"DeleteDatabase">>

\* remove_file(db_path) as delete_db reads it: Ok(true), Ok(false) for
\* NotFound, an error otherwise
DeleteDbResult(exists, o) ==
    IF ~exists THEN <<"Ok", FALSE>>
    ELSE IF o = "ok" THEN <<"Ok", TRUE>>
    ELSE <<"DeleteDatabase">>

\* UserDataManager::delete_db: with the file go the ledger and the tables
DeleteDb(o) ==
    /\ \A p \in Procs : ~InCall(p)
    /\ LET result == DeleteDbResult(dbFile, o)
       IN  /\ lastCall' = [op |-> "delete_db", pre |-> Snapshot, result |-> result]
           /\ IF result = <<"Ok", TRUE>>
              THEN /\ dbFile' = FALSE
                   /\ ledgerTable' = FALSE
                   /\ ledger' = << >>
                   /\ applied' = [v \in AllVersions |-> 0]
                   /\ accounts' = {}
                   /\ statements' = {}
              ELSE UNCHANGED <<dbFile, ledgerTable, ledger, applied, accounts, statements>>
    /\ UNCHANGED <<migGhost, dataDir, stmtDir, files, ingested, calls, call>>

\* what the engine answers a statement followed by its read-back: "ok",
\* "insert" the statement fails, "readback" it succeeds and the read-back fails
InsertOutcomes == {"ok", "insert", "readback"}

\* db.create_account on a handle from open_db
CreateAccount(id, parent_id, name, currency, note, o) ==
    /\ \A p \in Procs : ~InCall(p)
    /\ Migrated
    /\ LET row == AccountRow(id, parent_id, name, currency, note)
           outcome == IF AccountInsertAccepted(accounts, row) THEN o ELSE "insert"
       IN  /\ o = outcome
           /\ accounts' = IF outcome = "insert" THEN accounts ELSE accounts \cup {row}
           /\ lastCall' = [op |-> "create_account", id |-> id, pre |-> accounts,
                           input |-> <<parent_id, name, currency, note>>,
                           result |-> IF outcome = "ok" THEN <<"Ok", row>>
                                      ELSE IF outcome = "insert" THEN <<"Sql">>
                                      ELSE <<"ReadBack">>]
    /\ UNCHANGED <<migVars, dataDir, stmtDir, dbFile, statements, files, ingested,
                   calls, call>>

\* add_statement is entered
Begin(p, src, input) ==
    /\ \A q \in Procs : ~InCall(q)
    /\ calls < MaxCalls
    /\ calls' = calls + 1
    /\ call' = [call EXCEPT ![p] = [IdleCall EXCEPT !.pc = "prepare", !.src = src,
                                                     !.input = input, !.pre = Snapshot]]
    /\ lastCall' = [op |-> "add_statement"]
    /\ UNCHANGED <<migVars, dataDir, stmtDir, dbFile, accounts, statements, files,
                   ingested>>

\* let db = self.open_db().map_err(PrepareUserData)?
Prepare(p, o) ==
    /\ call[p].pc = "prepare"
    /\ LET r == OpenDb(o)
       IN  /\ OpenedDb(r)
           /\ IF r.ok THEN Goes(p, "open_source")
              ELSE Returns(p, <<"PrepareUserData", r.error>>)
    /\ UNCHANGED <<migGhost, libVars, accounts, statements, files, ingested, calls>>

\* File::open(source_path).map_err(OpenSource)?
OpenSource(p) ==
    /\ call[p].pc = "open_source"
    /\ IF call[p].src.exists THEN Goes(p, "create_temp")
       ELSE Returns(p, <<"OpenSource">>)
    /\ UNCHANGED <<migVars, libVars, dataDir, stmtDir, dbFile, accounts, statements, files,
                   ingested, calls>>

\* File::create(&temp_path).map_err(CreateTempFile)?
CreateTemp(p, ok) ==
    /\ call[p].pc = "create_temp"
    /\ IF ok
       THEN /\ files' = WriteFile(files, TempName(FreshToken(files)), <<>>)
            /\ call' = [call EXCEPT ![p].pc = "copy",
                                    ![p].temp = TempName(FreshToken(files))]
       ELSE /\ Returns(p, <<"CreateTempFile">>)
            /\ UNCHANGED files
    /\ UNCHANGED <<migVars, libVars, dataDir, stmtDir, dbFile, accounts, statements, ingested,
                   calls>>

\* the read/hash/write loop and the flush: all bytes reach the temporary
\* file, or the first read fails, or the last write does
Copied(bytes, fault) ==
    IF fault = "none" THEN Len(bytes)
    ELSE IF fault = "ReadSource" THEN 0
    ELSE Len(bytes) - 1

Copy(p, fault, k) ==
    /\ call[p].pc = "copy"
    /\ k = Copied(call[p].src.bytes, fault)
    /\ files' = WriteFile(files, call[p].temp, SubSeq(call[p].src.bytes, 1, k))
    /\ IF fault = "none" THEN Goes(p, "measure")
       ELSE Returns(p, <<fault>>)
    /\ UNCHANGED <<migVars, libVars, dataDir, stmtDir, dbFile, accounts, statements, ingested,
                   calls>>

\* metadata().len(), the digest and the final path
Measure(p, ok) ==
    /\ call[p].pc = "measure"
    /\ IF ok
       THEN call' = [call EXCEPT
                ![p].pc = "dup_check",
                ![p].size = Len(files[call[p].temp]),
                ![p].hash = Sha256Hex(call[p].src.bytes),
                ![p].final = StatementFilePathForSource(Sha256Hex(call[p].src.bytes),
                                                        call[p].src)]
       ELSE Returns(p, <<"TempFileMetadata">>)
    /\ UNCHANGED <<migVars, libVars, dataDir, stmtDir, dbFile, accounts, statements, files,
                   ingested, calls>>

\* the duplicate check: the temporary file is removed (an error of that
\* removal is dropped) and DuplicateFileHash returned, or the call goes on
DupCheck(p, removed) ==
    /\ call[p].pc = "dup_check"
    /\ LET found == FindStatementFilePath(files, call[p].hash)
       IN  IF found = {}
           THEN /\ removed
                /\ Goes(p, "rename")
                /\ UNCHANGED files
           ELSE /\ files' = IF removed THEN RemoveFile(files, call[p].temp) ELSE files
                /\ \E existing \in found :
                      Returns(p, <<"DuplicateFileHash", call[p].hash, existing>>)
    /\ UNCHANGED <<migVars, libVars, dataDir, stmtDir, dbFile, accounts, statements, ingested,
                   calls>>

\* std::fs::rename(&temp_path, &final_path).map_err(RenameToFinal)?
Rename(p, ok) ==
    /\ call[p].pc = "rename"
    /\ IF ok
       THEN /\ files' = RenameFile(files, call[p].temp, call[p].final)
            /\ Goes(p, "insert")
       ELSE /\ Returns(p, <<"RenameToFinal">>)
            /\ UNCHANGED files
    /\ UNCHANGED <<migVars, libVars, dataDir, stmtDir, dbFile, accounts, statements, ingested,
                   calls>>

\* db.create_statement(...): Ok(statement), or on to the compensation
Insert(p, o) ==
    /\ call[p].pc = "insert"
    /\ LET id == FreshStatementId(statements)
           row == StatementRow(id, call[p].input, call[p].hash, call[p].size)
           outcome == IF StatementInsertAccepted(accounts, row) THEN o ELSE "insert"
       IN  /\ o = outcome
           /\ statements' = IF outcome = "insert" THEN statements
                            ELSE statements \cup {row}
           /\ ingested' = IF outcome = "ok" THEN ingested \cup {call[p].hash}
                          ELSE ingested
           /\ IF outcome = "ok"
              THEN call' = [call EXCEPT ![p].pc = "done", ![p].stmt_id = id,
                                        ![p].insert = outcome,
                                        ![p].result = <<"Ok", row>>]
              ELSE call' = [call EXCEPT ![p].pc = "cleanup", ![p].stmt_id = id,
                                        ![p].insert = outcome]
    /\ UNCHANGED <<migVars, libVars, dataDir, stmtDir, dbFile, accounts, files, calls>>

\* InsertError that reports every failure as the INSERT's
InsertErrorFlattened(o) == "Sql"

InsertError(o) == IF o = "insert" THEN "Sql" ELSE "ReadBack"

\* the compensating remove_file(&final_path) and the error that is returned
Cleanup(p, ok) ==
    /\ call[p].pc = "cleanup"
    /\ IF ok
       THEN /\ files' = RemoveFile(files, call[p].final)
            /\ call' = [call EXCEPT
                    ![p].pc = "done", ![p].cleanup = "ok",
                    ![p].result = <<"InsertStatement", InsertError(call[p].insert)>>]
       ELSE /\ UNCHANGED files
            /\ call' = [call EXCEPT
                    ![p].pc = "done", ![p].cleanup = "failed",
                    ![p].result = <<"InsertStatementCleanupFailed",
                                    InsertError(call[p].insert), call[p].final>>]
    /\ UNCHANGED <<migVars, libVars, dataDir, stmtDir, dbFile, accounts, statements, ingested,
                   calls>>

\* the process dies inside add_statement: nothing more is done, and what the
\* call has put on disk and in the database stays as it is
Crash(p) ==
    /\ InCall(p)
    /\ call' = [call EXCEPT ![p].pc = "crashed", ![p].result = <<"Crashed", call[p].pc>>]
    /\ UNCHANGED <<migVars, libVars, dataDir, stmtDir, dbFile, accounts, statements, files,
                   ingested, calls>>

\* statement_file_path that joins the directory and the hash without a lookup
StatementFilePathNoLookup(dir, file_hash) == {StoredName(file_hash, None)}

\* statement_file_path: the paths it may return
StatementFilePath(dir, file_hash) ==
    IF FindStatementFilePath(dir, file_hash) = {} THEN {StoredName(file_hash, None)}
    ELSE FindStatementFilePath(dir, file_hash)

\* manager.statement_file_path(file_hash) for the document of the
\* add_statement call that has returned
LocateStatement(p) ==
    /\ Returned(p)
    /\ \E path \in StatementFilePath(files, Sha256Hex(call[p].src.bytes)) :
          lastCall' = [op |-> "statement_file_path",
                       hash |-> Sha256Hex(call[p].src.bytes), result |-> path]
    /\ UNCHANGED <<migVars, storeVars>>

StoreNext ==
    \/ \E p \in Procs : LocateStatement(p)
    \/ \E o \in PrepareOutcomes : ~dbFile /\ InitCall(o)
    \/ CreateAccount("A1", None, NameA, "USD", None, "ok")
    \/ \E src \in Sources, input \in AddStatementInputs : Begin(1, src, input)
    \/ \E p \in Procs :
          \/ \E o \in PrepareOutcomes : Prepare(p, o)
          \/ OpenSource(p)
          \/ \E ok \in BOOLEAN : CreateTemp(p, ok)
          \/ \E fault \in {"none", "ReadSource", "WriteTempFile"} :
                \E k \in 0..2 : Copy(p, fault, k)
          \/ \E ok \in BOOLEAN : Measure(p, ok)
          \/ \E removed \in BOOLEAN : DupCheck(p, removed)
          \/ \E ok \in BOOLEAN : Rename(p, ok)
          \/ \E o \in InsertOutcomes : Insert(p, o)
          \/ \E ok \in BOOLEAN : Cleanup(p, ok)
          \/ Crash(p)

SpecStore == StoreInit /\ [][StoreNext]_vars

----------------------------------------------------------------------------
(* add_statement: what a caller may rely on *)

\* the stored (digest-named) files of a statements directory, with their content
StoredFiles(dir) ==
    {<<n, dir[n]>> : n \in {m \in DOMAIN dir : m[1] = "stored"}}

\* the rows of the statements table for a digest
RowsOf(rows, file_hash) == {r \in rows : r.file_hash = file_hash}

\* the call came as far as find_statement_file_path
ReachedDupCheck(p) ==
    call[p].result[1] \in {"Ok", "DuplicateFileHash", "RenameToFinal",
                           "InsertStatement", "InsertStatementCleanupFailed"}

C7_SecondIngestRejected ==
    \A p \in Procs :
        Returned(p) /\ call[p].src.exists /\ ReachedDupCheck(p)
            /\ Sha256Hex(call[p].src.bytes) \in call[p].pre.ingested
        => /\ call[p].result[1] = "DuplicateFileHash"
           /\ call[p].result[2] = Sha256Hex(call[p].src.bytes)
           /\ call[p].result[3] \in DOMAIN call[p].pre.files
           /\ StemMatches(call[p].result[3], call[p].result[2])
           /\ StoredFiles(files) = StoredFiles(call[p].pre.files)
           /\ Cardinality(RowsOf(statements, call[p].result[2])) = 1

C9_RowHasFile ==
    (\A p \in Procs : ~InCall(p))
        => \A r \in statements : \E n \in DOMAIN files : StemMatches(n, r.file_hash)

\* C10: a call that returns OpenSource has left the data directory, the
\* statements directory, the database file and the ledger as they were when
\* it was entered.
C10_OpenSourceBeforeMutation ==
    \A p \in Procs :
        Returned(p) /\ call[p].result = <<"OpenSource">>
        => /\ dataDir = call[p].pre.dataDir
           /\ stmtDir = call[p].pre.stmtDir
           /\ dbFile = call[p].pre.dbFile
           /\ ledgerTable = call[p].pre.ledgerTable
           /\ ledger = call[p].pre.ledger
           /\ files = call[p].pre.files

\* "<digest>.<extension>", or "<digest>" for a source without extension
ExpectedStoredName(src) ==
    IF src.ext = None \/ src.ext = Some(<<>>)
    THEN <<"stored", Sha256Hex(src.bytes), None>>
    ELSE <<"stored", Sha256Hex(src.bytes), src.ext>>

----------------------------------------------------------------------------
(* Migration::from_file_name *)

ChDot == 46
ChPlus == 43
ChMinus == 45
ChNine == 57
ChUpperA == 65
ChUpperZ == 90
CaseOffset == 32

\* "sql" and the decimal digits of u32::MAX
SqlExtension == <<115, 113, 108>>
U32MaxDigits == <<52, 50, 57, 52, 57, 54, 55, 50, 57, 53>>

IsDigit(c) == ChZero <= c /\ c <= ChNine

\* the positions of a character in a text
IndicesOf(s, c) == {i \in 1..Len(s) : s[i] = c}

Min(S) == CHOOSE x \in S : \A y \in S : x <= y
Max(S) == CHOOSE x \in S : \A y \in S : y <= x

\* Path::file_stem and Path::extension of a one-component path: the name is
\* split at its last '.', unless it is ".." or has no '.' after its first
\* character
FileStemAndExtension(file_name) ==
    LET dots == IndicesOf(file_name, ChDot)
    IN  IF file_name = <<>>
        THEN [stem |-> None, extension |-> None]
        ELSE IF file_name = <<ChDot, ChDot>> \/ dots = {} \/ Max(dots) = 1
        THEN [stem |-> Some(file_name), extension |-> None]
        ELSE [stem |-> Some(SubSeq(file_name, 1, Max(dots) - 1)),
              extension |-> Some(SubSeq(file_name, Max(dots) + 1, Len(file_name)))]

ToAsciiLowercase(c) == IF ChUpperA <= c /\ c <= ChUpperZ THEN c + CaseOffset ELSE c

EqIgnoreAsciiCase(a, b) ==
    /\ Len(a) = Len(b)
    /\ \A i \in 1..Len(a) : ToAsciiLowercase(a[i]) = ToAsciiLowercase(b[i])

\* str::split_once('_'): the text before and after the first '_'
SplitOnce(s, c) ==
    IF IndicesOf(s, c) = {} THEN None
    ELSE Some(<<SubSeq(s, 1, Min(IndicesOf(s, c)) - 1),
                SubSeq(s, Min(IndicesOf(s, c)) + 1, Len(s))>>)

RECURSIVE StripLeadingZeros(_)
StripLeadingZeros(digits) ==
    IF digits # <<>> /\ Head(digits) = ChZero THEN StripLeadingZeros(Tail(digits))
    ELSE digits

\* the digits denote a number above u32::MAX
ExceedsU32(digits) ==
    LET d == StripLeadingZeros(digits)
    IN  \/ Len(d) > Len(U32MaxDigits)
        \/ Len(d) = Len(U32MaxDigits) /\ LexLess(U32MaxDigits, d)

RECURSIVE DigitsValue(_)
DigitsValue(digits) ==
    IF digits = <<>> THEN 0
    ELSE 10 * DigitsValue(SubSeq(digits, 1, Len(digits) - 1))
            + (digits[Len(digits)] - ChZero)

\* a parse that keeps the low 32 bits of a value above u32::MAX
ParseU32Wrapping(s) ==
    LET digits == IF s # <<>> /\ s[1] = ChPlus THEN Tail(s) ELSE s
    IN  IF s = <<>> THEN [ok |-> FALSE, kind |-> "Empty", value |-> 0]
        ELSE IF digits = <<>> \/ \E i \in 1..Len(digits) : ~IsDigit(digits[i])
        THEN [ok |-> FALSE, kind |-> "InvalidDigit", value |-> 0]
        ELSE IF ExceedsU32(digits)
        THEN [ok |-> TRUE, kind |-> "none", value |-> 0]
        ELSE [ok |-> TRUE, kind |-> "none", value |-> DigitsValue(digits)]

\* str::parse::<u32>: an optional '+', then one or more decimal digits whose
\* value fits 32 bits
ParseU32(s) ==
    LET digits == IF s # <<>> /\ s[1] = ChPlus THEN Tail(s) ELSE s
    IN  IF s = <<>> THEN [ok |-> FALSE, kind |-> "Empty", value |-> 0]
        ELSE IF digits = <<>> \/ \E i \in 1..Len(digits) : ~IsDigit(digits[i])
        THEN [ok |-> FALSE, kind |-> "InvalidDigit", value |-> 0]
        ELSE IF ExceedsU32(digits)
        THEN [ok |-> FALSE, kind |-> "PosOverflow", value |-> 0]
        ELSE [ok |-> TRUE, kind |-> "none", value |-> DigitsValue(digits)]

ParseError(kind) == [ok |-> FALSE, error |-> kind, migration |-> None]

FromFileName(file_name) ==
    LET parts == FileStemAndExtension(file_name)
        is_sql == parts.extension # None
                     /\ EqIgnoreAsciiCase(parts.extension[1], SqlExtension)
        split == SplitOnce(parts.stem[1], ChUnderscore)
        version == ParseU32(split[1][1])
    IN  IF ~is_sql THEN ParseError("InvalidExtension")
        ELSE IF parts.stem = None \/ split = None THEN ParseError("InvalidFilename")
        ELSE IF split[1][1] = <<>> \/ split[1][2] = <<>> THEN ParseError("InvalidFilename")
        ELSE IF ~version.ok THEN ParseError("InvalidVersion")
        ELSE [ok |-> TRUE, error |-> "none",
              migration |-> Some([version |-> version.value, name |-> split[1][2],
                                  file_name |-> file_name])]

----------------------------------------------------------------------------
(* Discovery: Migration::from_source over the names a source lists *)

MaxListing == 3

\* from_source that passes over the names that do not parse
FromSourceFilesLenient(listing) ==
    LET Parses(f) == FromFileName(f).ok
        parsed == SelectSeq(listing, Parses)
    IN  FromSource([i \in 1..Len(parsed) |-> FromFileName(parsed[i]).migration[1]])

\* the Migration of every listed name, or the error of the first name that
\* does not parse; then sort and duplicate check
FromSourceFiles(listing) ==
    LET unparsed == {i \in 1..Len(listing) : ~FromFileName(listing[i]).ok}
    IN  IF unparsed # {}
        THEN [ok |-> FALSE,
              error |-> <<"Parse", FromFileName(listing[Min(unparsed)]).error>>,
              migrations |-> <<>>]
        ELSE FromSource([i \in 1..Len(listing) |-> FromFileName(listing[i]).migration[1]])

\* texts that file names are assembled from
VersionTexts ==
    {<<>>, <<49>>, <<48, 49>>, <<48, 48, 48, 49>>, <<50>>, <<49, 48>>,
     <<ChPlus, 49>>, <<ChMinus, 49>>, <<49, 97>>, <<97>>,
     <<52, 50, 57, 52, 57, 54, 55, 50, 57, 54>>}
NameTexts == {<<>>, NameA, NameB, <<97, ChUnderscore, 98>>}
SuffixTexts ==
    {SqlSuffix, <<ChDot, 83, 81, 76>>, <<ChDot, 83, 113, 108>>,
     <<ChDot, 116, 120, 116>>, <<>>}

\* the names from_file_name is called with
CandidateNames ==
    {v \o sep \o n \o x : v \in VersionTexts, sep \in {<<>>, <<ChUnderscore>>},
                          n \in NameTexts, x \in SuffixTexts}

\* the files of a migrations directory: 0001_a.sql, 1_b.sql, 02_b.SQL,
\* 10_a.sql, a.sql and a_a.sql
DirectoryFiles ==
    {FileNameOf(TRUE, 1, NameA), FileNameOf(FALSE, 1, NameB),
     <<48, 50, ChUnderscore>> \o NameB \o <<ChDot, 83, 81, 76>>,
     <<49, 48, ChUnderscore>> \o NameA \o SqlSuffix,
     NameA \o SqlSuffix,
     NameA \o <<ChUnderscore>> \o NameA \o SqlSuffix}

\* what migration_files may return: some of the files, each once, in any order
RECURSIVE ListingsOfLen(_)
ListingsOfLen(k) ==
    IF k = 0 THEN {<<>>}
    ELSE {Append(l, f) : <<l, f>> \in
            {p \in ListingsOfLen(k - 1) \X DirectoryFiles : p[2] \notin Range(p[1])}}

Listings == UNION {ListingsOfLen(k) : k \in 0..MaxListing}

\* Migration::from_file_name(file_name)
ParseFileName(file_name) ==
    /\ lastCall' = [op |-> "from_file_name", file_name |-> file_name,
                    result |-> FromFileName(file_name)]
    /\ UNCHANGED <<migVars, storeVars>>

\* Migration::from_source(source): migration_files fails (Io), or lists
Discover(listing, listed) ==
    /\ ~listed => listing = <<>>
    /\ lastCall' = [op |-> "from_source", listing |-> listing,
                    result |-> IF listed THEN FromSourceFiles(listing)
                               ELSE [ok |-> FALSE, error |-> <<"Io">>,
                                     migrations |-> <<>>]]
    /\ UNCHANGED <<migVars, storeVars>>

\* MigrationsDir::migration_files: Embedded keeps the paths that end with
\* ".sql" as written, Fs keeps the files whose Path::extension is sql in any
\* letter case
MigrationFiles(source, names) ==
    IF source = "Embedded"
    THEN {n \in names : Len(n) >= Len(SqlSuffix)
                          /\ SubSeq(n, Len(n) - Len(SqlSuffix) + 1, Len(n)) = SqlSuffix}
    ELSE {n \in names : FileStemAndExtension(n).extension # None
                          /\ EqIgnoreAsciiCase(FileStemAndExtension(n).extension[1],
                                               SqlExtension)}

\* source.migration_files() on a directory that holds the files named
ListMigrationFiles(source, names) ==
    /\ lastCall' = [op |-> "migration_files", source |-> source, names |-> names,
                    result |-> MigrationFiles(source, names)]
    /\ UNCHANGED <<migVars, storeVars>>

DiscoverNext ==
    \/ \E file_name \in CandidateNames : ParseFileName(file_name)
    \/ \E source \in {"Embedded", "Fs"} :
          \E names \in SUBSET {FileNameOf(TRUE, 1, NameA),
                               <<48, 50, ChUnderscore>> \o NameB \o <<ChDot, 83, 81, 76>>,
                               NameA \o <<ChDot, 116, 120, 116>>, SqlSuffix} :
             ListMigrationFiles(source, names)
    \/ \E listing \in Listings, listed \in BOOLEAN : Discover(listing, listed)

SpecDiscover == StoreInit /\ [][DiscoverNext]_vars

----------------------------------------------------------------------------
(* Discovery: what a caller may rely on *)

\* from_source was called and the source listed its files
Discovered == lastCall.op = "from_source" /\ lastCall.result.error # <<"Io">>

\* every listed name parses
AllParse(listing) == \A i \in 1..Len(listing) : FromFileName(listing[i]).ok

\* the Migration values of the listed names
ParsedSet(listing) == {FromFileName(listing[i]).migration[1] : i \in 1..Len(listing)}

\* the versions that two listed names share
SharedVersions(listing) ==
    {a.version : <<a, b>> \in {p \in ParsedSet(listing) \X ParsedSet(listing) :
                                 p[1] # p[2] /\ p[1].version = p[2].version}}

\* C12: when every listed name parses, from_source returns DuplicateVersion(v)
\* exactly when two names have the same numeric version, whatever their
\* padding, with v a version two of them share; otherwise it returns the catalog.
C12_DuplicateVersionRejected ==
    Discovered /\ AllParse(lastCall.listing)
    => IF SharedVersions(lastCall.listing) # {}
       THEN /\ ~lastCall.result.ok
            /\ lastCall.result.error[1] = "DuplicateVersion"
            /\ lastCall.result.error[2] \in SharedVersions(lastCall.listing)
       ELSE /\ lastCall.result.ok
            /\ Range(lastCall.result.migrations) = ParsedSet(lastCall.listing)

\* 0001_a.sql and 1_b.sql are listed with a third file between them
C12_Witness ==
    /\ Discovered
    /\ Len(lastCall.listing) = 3
    /\ lastCall.listing[1] = FileNameOf(TRUE, 1, NameA)
    /\ lastCall.listing[3] = FileNameOf(FALSE, 1, NameB)
    /\ lastCall.result.error = <<"DuplicateVersion", 1>>

\* C13: a successful from_source returns the parsed names, each once, strictly
\* ascending by version, and returns the same list for every order in which
\* the same files are listed.
C13_SortedWhateverTheListing ==
    Discovered /\ lastCall.result.ok
    => /\ Len(lastCall.result.migrations) = Len(lastCall.listing)
       /\ Range(lastCall.result.migrations) = ParsedSet(lastCall.listing)
       /\ \A i \in 1..(Len(lastCall.result.migrations) - 1) :
             lastCall.result.migrations[i].version
                < lastCall.result.migrations[i + 1].version
       /\ \A other \in ListingsOfLen(Len(lastCall.listing)) :
             Range(other) = Range(lastCall.listing)
                => FromSourceFiles(other) = lastCall.result

\* 10_a.sql is listed before 02_b.SQL and 0001_a.sql
C13_Witness ==
    /\ Discovered
    /\ lastCall.result.ok
    /\ Len(lastCall.listing) = 3
    /\ lastCall.listing[1] = <<49, 48, ChUnderscore>> \o NameA \o SqlSuffix
    /\ lastCall.listing[2] = <<48, 50, ChUnderscore>> \o NameB \o <<ChDot, 83, 81, 76>>
    /\ lastCall.result.migrations[3].version = 10

\* <digits>_<name>.<sql in any letter case>, the digits within 32 bits
WellFormedName(f) ==
    \E i \in 2..(Len(f) - 5) :
        /\ \A k \in 1..(i - 1) : IsDigit(f[k])
        /\ ~ExceedsU32(SubSeq(f, 1, i - 1))
        /\ f[i] = ChUnderscore
        /\ f[Len(f) - 3] = ChDot
        /\ EqIgnoreAsciiCase(SubSeq(f, Len(f) - 2, Len(f)), SqlExtension)

\* C14: from_file_name succeeds exactly for <digits>_<name>.<sql, any case>,
\* with both parts non-empty and the stem split at its first '_'; the version
\* is the value of the digits, leading zeros ignored; a version part with any
\* character that is no decimal digit is rejected.
C14_ParsesExactlyWellFormedNames ==
    lastCall.op = "from_file_name"
    => /\ lastCall.result.ok <=> WellFormedName(lastCall.file_name)
       /\ lastCall.result.ok
            => LET m == lastCall.result.migration[1]
                   cut == Min(IndicesOf(lastCall.file_name, ChUnderscore))
               IN  /\ m.version = DigitsValue(SubSeq(lastCall.file_name, 1, cut - 1))
                   /\ m.name = SubSeq(lastCall.file_name, cut + 1,
                                      Len(lastCall.file_name) - 4)
                   /\ m.file_name = lastCall.file_name

----------------------------------------------------------------------------
(* Db: accounts and statements (db.rs) *)

MaxStatements == 2

\* the UPDATE without its WHERE clause
MatchingRowsAll(accts, id) == accts

\* WHERE id = ?1
MatchingRows(accts, id) == {a \in accts : a.id = id}

\* UpdatedRow that writes the creation time anew
UpdatedRowRestamped(op, a, new_name) ==
    IF op = "rename_account" THEN [a EXCEPT !.name = new_name, !.created_at = <<>>]
    ELSE [a EXCEPT !.is_closed = TRUE, !.created_at = <<>>]

\* UpdatedRow with a rename that reopens the account
UpdatedRowReopens(op, a, new_name) ==
    IF op = "rename_account" THEN [a EXCEPT !.name = new_name, !.is_closed = FALSE]
    ELSE [a EXCEPT !.is_closed = TRUE]

\* SET name = ?2, or SET is_closed = 1
UpdatedRow(op, a, new_name) ==
    IF op = "rename_account" THEN [a EXCEPT !.name = new_name]
    ELSE [a EXCEPT !.is_closed = TRUE]

\* SELECT ... FROM accounts ORDER BY parent_id, name, id: NULL sorts first
AccountLess(a, b) ==
    LET pa == IF a.parent_id = None THEN <<>> ELSE <<a.parent_id[1]>>
        pb == IF b.parent_id = None THEN <<>> ELSE <<b.parent_id[1]>>
        key(s) == CHOOSE k \in 1..3 : s = <<"A1", "A2", "A3">>[k]
    IN  \/ pa = <<>> /\ pb # <<>>
        \/ pa # <<>> /\ pb # <<>> /\ key(pa[1]) < key(pb[1])
        \/ pa = pb /\ LexLess(a.name, b.name)
        \/ pa = pb /\ a.name = b.name /\ key(a.id) < key(b.id)

\* Db::list_accounts
ListAccounts(accts) ==
    CHOOSE s \in [1..Cardinality(accts) -> accts] :
        \A i \in 1..Cardinality(accts), j \in 1..Cardinality(accts) :
            i < j => AccountLess(s[i], s[j])

\* the UPDATE of rename_account and close_account, the zero-rows check and
\* the read-back
UpdateAccount(op, id, new_name, o) ==
    /\ \A p \in Procs : ~InCall(p)
    /\ Migrated
    /\ LET hit == MatchingRows(accounts, id)
           new == {UpdatedRow(op, a, new_name) : a \in hit}
           after == (accounts \ hit) \cup new
           outcome == IF \A r \in new : AccountInsertAccepted(accounts \ hit, r)
                      THEN o ELSE "insert"
       IN  /\ o = outcome
           /\ accounts' = IF outcome = "insert" THEN accounts ELSE after
           /\ lastCall' = [op |-> op, id |-> id, pre |-> accounts, input |-> new_name,
                           result |-> IF outcome = "insert" THEN <<"Sql">>
                                      ELSE IF hit = {} THEN <<"NotFound", id>>
                                      ELSE IF outcome = "readback" THEN <<"ReadBack">>
                                      ELSE IF MatchingRows(after, id) = {}
                                      THEN <<"NotFound", id>>
                                      ELSE <<"Ok", CHOOSE a \in MatchingRows(after, id) : TRUE>>]
    /\ UNCHANGED <<migVars, dataDir, stmtDir, dbFile, statements, files, ingested,
                   calls, call>>

RenameAccount(id, new_name, o) == UpdateAccount("rename_account", id, new_name, o)

CloseAccount(id, o) == UpdateAccount("close_account", id, <<>>, o)

\* replaced_by references a statement
ReplacedByAccepted(rows, row) ==
    row.replaced_by # None => \E r \in rows : r.id = row.replaced_by[1]

\* Db::create_statement with a fresh id
CreateStatement(input, file_hash, file_size, o) ==
    /\ \A p \in Procs : ~InCall(p)
    /\ Migrated
    /\ Cardinality(statements) < MaxStatements
    /\ LET id == FreshStatementId(statements)
           row == StatementRow(id, input, file_hash, file_size)
           outcome == IF /\ StatementInsertAccepted(accounts, row)
                         /\ ReplacedByAccepted(statements, row)
                      THEN o ELSE "insert"
       IN  /\ o = outcome
           /\ input.replaced_by # Some(id)
           /\ statements' = IF outcome = "insert" THEN statements
                            ELSE statements \cup {row}
           /\ lastCall' = [op |-> "create_statement", id |-> id, pre |-> statements,
                           input |-> <<input, file_hash, file_size>>,
                           result |-> IF outcome = "ok" THEN <<"Ok", row>>
                                      ELSE IF outcome = "insert" THEN <<"Sql">>
                                      ELSE <<"ReadBack">>]
    /\ UNCHANGED <<migVars, dataDir, stmtDir, dbFile, accounts, files, ingested,
                   calls, call>>

\* A1 is created as a root, A2 as a root or under A1, A3 under A1; A2 and A3
\* are renamed, A1 and A2 are closed
DbNext ==
    \/ ~dbFile /\ InitCall(<<"run", [i \in 1..Len(GoodBundle) |-> "ok"]>>)
    \/ \E id \in {"A1", "A2", "A3"}, o \in InsertOutcomes :
          \/ \E parent_id \in {None, Some("A1")}, name \in Names :
                /\ id = "A1" => parent_id = None /\ name = NameA
                /\ id = "A3" => parent_id # None
                /\ CreateAccount(id, parent_id, name, "USD", None, o)
          \/ \E new_name \in Names : id # "A1" /\ RenameAccount(id, new_name, o)
          \/ id # "A3" /\ CloseAccount(id, o)
    \/ \E input \in [institution : Institutions, account_id : AccountIds,
                     replaced_by : {None, Some(1), Some(MaxStatements + 1)}],
          o \in InsertOutcomes :
          CreateStatement(input, Sha256Hex(BytesA), Len(BytesA), o)

SpecDb == StoreInit /\ [][DbNext]_vars

----------------------------------------------------------------------------
(* Db: what a caller may rely on *)

\* C15: a create_account that succeeds returns a row with the given id,
\* parent_id, name, currency and note, is_closed = false and a non-empty
\* created_at, and list_accounts then holds exactly one row with that id,
\* equal to the returned one.
C15_CreateAccountReturnsInputs ==
    lastCall.op = "create_account" /\ lastCall.result[1] = "Ok"
    => LET row == lastCall.result[2]
       IN  /\ row.id = lastCall.id
           /\ <<row.parent_id, row.name, row.currency, row.note>> = lastCall.input
           /\ ~row.is_closed
           /\ row.created_at # <<>>
           /\ {a \in Range(ListAccounts(accounts)) : a.id = lastCall.id} = {row}
           /\ Len(ListAccounts(accounts)) = Cardinality(lastCall.pre) + 1

\* an account is created under A1 in a table that already has two rows
C15_Witness ==
    /\ lastCall.op = "create_account"
    /\ lastCall.result[1] = "Ok"
    /\ lastCall.input[1] = Some("A1")
    /\ Cardinality(lastCall.pre) = 2

\* C16: create_account fails and inserts nothing when an account has the id
\* already or when an account has the same parent_id and name, roots
\* included; no two accounts ever have equal (parent_id, name).
C16_NoDuplicateSiblings ==
    /\ lastCall.op = "create_account"
          /\ (\E a \in lastCall.pre :
                 \/ a.id = lastCall.id
                 \/ <<a.parent_id, a.name>> = <<lastCall.input[1], lastCall.input[2]>>)
       => lastCall.result[1] # "Ok" /\ accounts = lastCall.pre
    /\ \A a \in accounts, b \in accounts :
          a.parent_id = b.parent_id /\ a.name = b.name => a = b

C18_ClosedStaysClosed ==
    /\ [][\A a \in accounts : a.is_closed
             => \E b \in accounts' : b.id = a.id /\ b.is_closed]_vars
    /\ [](lastCall.op = "close_account"
             /\ lastCall.result \notin {<<"Sql">>, <<"ReadBack">>}
             /\ (\E a \in lastCall.pre : a.id = lastCall.id /\ a.is_closed)
          => lastCall.result[1] = "Ok" /\ lastCall.result[2].is_closed)

\* a closed account has been renamed
C18_Witness ==
    /\ lastCall.op = "rename_account"
    /\ lastCall.result[1] = "Ok"
    /\ \E a \in lastCall.pre : a.id = lastCall.id /\ a.is_closed /\ a.name # lastCall.input

----------------------------------------------------------------------------
(* statement_file_path: what a caller may rely on *)

----------------------------------------------------------------------------
(* add_statement: failures *)

\* C21: a call whose create_statement failed returns one of two results:
\* InsertStatement with the insert error and the placed file gone, or, when
\* the removal failed too, InsertStatementCleanupFailed with the insert error
\* and the digest-named path, at which the file still is.
C21_CompoundFailureSurfaced ==
    \A p \in Procs :
        Returned(p) /\ call[p].insert \in {"insert", "readback"}
        => LET error == IF call[p].insert = "insert" THEN "Sql" ELSE "ReadBack"
           IN  IF call[p].cleanup = "ok"
               THEN /\ call[p].result = <<"InsertStatement", error>>
                    /\ call[p].final \notin DOMAIN files
               ELSE /\ call[p].cleanup = "failed"
                    /\ call[p].result
                          = <<"InsertStatementCleanupFailed", error, call[p].final>>
                    /\ call[p].final = ExpectedStoredName(call[p].src)
                    /\ call[p].final \in DOMAIN files
                    /\ files[call[p].final] = call[p].src.bytes

\* the read-back failed and the placed .pdf file could not be removed
C21_Witness ==
    /\ Returned(1)
    /\ call[1].insert = "readback"
    /\ call[1].cleanup = "failed"
    /\ call[1].final[3] = Some(ExtPdf)

\* C22: a call that returns DuplicateFileHash leaves the statements directory
\* with exactly the files it had before the call, its temporary file removed,
\* and the statements table unchanged.
C22_DuplicateLeavesNoTrace ==
    \A p \in Procs :
        Returned(p) /\ call[p].result[1] = "DuplicateFileHash"
        => files = call[p].pre.files /\ statements = call[p].pre.statements


\* the call has not renamed its temporary file: it is before or at the
\* rename, or it ended, by an error or a crash, before the rename was done
BeforeRename(p) ==
    LET early == {"prepare", "open_source", "create_temp", "copy", "measure",
                  "dup_check", "rename"}
    IN  \/ call[p].pc \in early
        \/ call[p].pc = "crashed" /\ call[p].result[2] \in early
        \/ /\ call[p].pc = "done"
           /\ call[p].result[1] \in {"PrepareUserData", "OpenSource", "CreateTempFile",
                                     "ReadSource", "WriteTempFile", "TempFileMetadata",
                                     "DuplicateFileHash", "RenameToFinal"}

\* C23: while a call has not renamed its temporary file, and after it ended
\* by an error or a crash before the rename, the digest-named files are the
\* ones that were there when it began; and every digest-named file holds
\* bytes whose digest is its name, never a part of a source.
C23_PlacedWholeOrNotAtAll ==
    /\ \A p \in Procs :
          BeforeRename(p) => StoredFiles(files) = StoredFiles(call[p].pre.files)
    /\ \A n \in DOMAIN files : n[1] = "stored" => Sha256Hex(files[n]) = n[2]

\* the process died just before the rename: the copy of the two-byte source
\* sits under the temporary name and there is no digest-named file
C23_Witness ==
    /\ call[1].pc = "crashed"
    /\ call[1].result[2] = "rename"
    /\ call[1].src.bytes = BytesB
    /\ call[1].temp \in DOMAIN files
    /\ StoredFiles(files) = {}


\* the digests that have a digest-named file and no statement row
Orphans(dir, rows) ==
    {n[2] : n \in {m \in DOMAIN dir : m[1] = "stored" /\ RowsOf(rows, m[2]) = {}}}

EachFileHasOneRow(dir, rows) ==
    \A n \in DOMAIN dir : n[1] = "stored" => Cardinality(RowsOf(rows, n[2])) = 1

\* C25: a call that returns, without a failed compensating delete, on a store
\* in which every digest-named file is referenced by exactly one statement
\* row leaves a store in which that is so; the empty directory is such a
\* store, so sequential calls without crash keep it so.
C25_EachFileHasOneRow ==
    \A p \in Procs :
        /\ Returned(p)
        /\ call[p].result[1] # "InsertStatementCleanupFailed"
        /\ EachFileHasOneRow(call[p].pre.files, call[p].pre.statements)
        => EachFileHasOneRow(files, statements)

\* C26: a call that fails after its temporary file was created, with
\* ReadSource, WriteTempFile, TempFileMetadata, RenameToFinal or
\* InsertStatement, leaves the statements directory exactly as it was before
\* the call: no temporary file and no digest-named file remains.
C26_FailureLeavesNoFile ==
    \A p \in Procs :
        /\ Returned(p)
        /\ call[p].result[1] \in {"ReadSource", "WriteTempFile", "TempFileMetadata",
                                  "RenameToFinal", "InsertStatement"}
        => files = call[p].pre.files

----------------------------------------------------------------------------
(* add_statement: two callers on one data directory *)

\* add_statement is entered by a caller of its own while the other caller may
\* be inside its call; the store is migrated and the account exists
BeginConcurrent(p, src, input) ==
    /\ call[p].pc = "idle"
    /\ Migrated
    /\ \E a \in accounts : a.id = input.account_id
    /\ calls' = calls + 1
    /\ call' = [call EXCEPT ![p] = [IdleCall EXCEPT !.pc = "prepare", !.src = src,
                                                     !.input = input, !.pre = Snapshot]]
    /\ lastCall' = [op |-> "add_statement"]
    /\ UNCHANGED <<migVars, dataDir, stmtDir, dbFile, accounts, statements, files,
                   ingested>>

\* the steps of the two calls in every order, with no I/O or engine failure
ConcNext ==
    \/ \E o \in PrepareOutcomes :
          ~dbFile /\ o[1] = "run" /\ (\A i \in DOMAIN o[2] : o[2][i] = "ok") /\ InitCall(o)
    \/ CreateAccount("A1", None, NameA, "USD", None, "ok")
    \/ \E p \in Procs :
          \/ \E src \in {s \in Sources : s.exists /\ s.ext # Some(<<>>)} :
                BeginConcurrent(p, src, [institution |-> "Chase", account_id |-> "A1",
                                         replaced_by |-> None])
          \/ \E o \in PrepareOutcomes : o[1] = "run" /\ Prepare(p, o)
          \/ OpenSource(p)
          \/ CreateTemp(p, TRUE)
          \/ \E k \in 0..2 : Copy(p, "none", k)
          \/ Measure(p, TRUE)
          \/ DupCheck(p, TRUE)
          \/ Rename(p, TRUE)
          \/ Insert(p, "ok")

SpecConc == StoreInit /\ [][ConcNext]_vars

\* C27: two calls with different content that run at the same time never
\* have the same temporary file while they write and rename it, and when both have returned both returned
\* Ok, each digest-named file is there with the whole content of its source,
\* and each has its row.
C27_DifferentContentBothSucceed ==
    \A p, q \in Procs :
        p # q /\ call[p].pc # "idle" /\ call[q].pc # "idle"
              /\ call[p].src.bytes # call[q].src.bytes
        => /\ {call[p].pc, call[q].pc} \subseteq {"copy", "measure", "dup_check", "rename"}
              => call[p].temp # call[q].temp
           /\ Returned(p) /\ Returned(q)
              => \A r \in {p, q} :
                    /\ call[r].result[1] = "Ok"
                    /\ ExpectedStoredName(call[r].src) \in DOMAIN files
                    /\ files[ExpectedStoredName(call[r].src)] = call[r].src.bytes
                    /\ call[r].result[2] \in statements
                    /\ call[r].result[2].file_hash = Sha256Hex(call[r].src.bytes)

\* each call began before the other had created a file, and both returned
C27_Witness ==
    /\ Returned(1) /\ Returned(2)
    /\ call[1].pre.files = << >> /\ call[2].pre.files = << >>
    /\ call[1].src.bytes # call[2].src.bytes
    /\ call[1].temp # call[2].temp
    /\ Cardinality(statements) = 2

\* C28: of two calls with the same bytes that run at the same time at most
\* one returns Ok, and when both have returned there is at most one
\* digest-named file and at most one statement row for the digest.
C28_SameContentOnlyOnce ==
    \A p, q \in Procs :
        p # q /\ Returned(p) /\ Returned(q) /\ call[p].src.bytes = call[q].src.bytes
        => LET h == Sha256Hex(call[p].src.bytes)
           IN  /\ ~(call[p].result[1] = "Ok" /\ call[q].result[1] = "Ok")
               /\ Cardinality({n \in DOMAIN files : StemMatches(n, h)}) <= 1
               /\ Cardinality(RowsOf(statements, h)) <= 1

----------------------------------------------------------------------------
(* Parse errors: their kind and their precedence *)

\* C29: a name from_file_name rejects is rejected with one of three kinds:
\* InvalidExtension when its extension is not sql in any letter case, whatever
\* the stem; else InvalidFilename when the stem has no '_' or nothing before
\* or after its first '_'; else InvalidVersion, and that for every version
\* part that is no number, is negative or is above 4294967295. An accepted
\* name has the value of its digits as version, never a wrapped one.
C29_RejectedByKind ==
    lastCall.op = "from_file_name"
    => LET f == lastCall.file_name
           r == lastCall.result
           dot == {d \in 2..Len(f) : f[d] = ChDot /\ \A k \in (d + 1)..Len(f) : f[k] # ChDot}
           sql == \E d \in dot : EqIgnoreAsciiCase(SubSeq(f, d + 1, Len(f)), SqlExtension)
           stem == IF dot = {} THEN f ELSE SubSeq(f, 1, Max(dot) - 1)
           bar == {u \in 1..Len(stem) : stem[u] = ChUnderscore}
           shaped == bar # {} /\ 1 < Min(bar) /\ Min(bar) < Len(stem)
           v == SubSeq(stem, 1, Min(bar) - 1)
           signed == v[1] \in {ChPlus, ChMinus}
           digits == IF signed THEN Tail(v) ELSE v
           number == digits # <<>> /\ \A k \in 1..Len(digits) : IsDigit(digits[k])
           negative == v[1] = ChMinus /\ StripLeadingZeros(digits) # <<>>
       IN  /\ ~sql => r.error = "InvalidExtension"
           /\ sql /\ ~shaped => r.error = "InvalidFilename"
           /\ sql /\ shaped
              => /\ r.error \in {"InvalidVersion", "none"}
                 /\ ~number \/ negative \/ ExceedsU32(digits) => r.error = "InvalidVersion"
                 /\ r.error = "none"
                    => number /\ r.migration[1].version = DigitsValue(digits)
           /\ r.ok <=> r.error = "none"
           /\ ~r.ok => r.migration = None

\* 4294967296_a.sql is rejected with InvalidVersion
C29_Witness ==
    /\ lastCall.op = "from_file_name"
    /\ lastCall.file_name = SubSeq(U32MaxDigits, 1, 9) \o <<54, ChUnderscore>> \o NameA \o SqlSuffix
    /\ lastCall.result.error = "InvalidVersion"

\* C30: when a listed name does not parse, from_source returns Parse with the
\* error kind of the first such name of the listing and no catalog, also when
\* every other name parses and when two names share a version.
C30_FirstParseErrorAborts ==
    Discovered /\ ~AllParse(lastCall.listing)
    => LET listing == lastCall.listing
           first == Min({i \in 1..Len(listing) : ~FromFileName(listing[i]).ok})
       IN  /\ ~lastCall.result.ok
           /\ lastCall.result.error = <<"Parse", FromFileName(listing[first]).error>>
           /\ lastCall.result.migrations = <<>>

\* 0001_a.sql and 1_b.sql share version 1 and are listed before a.sql:
\* the result is Parse(InvalidFilename)
C30_Witness ==
    /\ Discovered
    /\ Len(lastCall.listing) = 3
    /\ lastCall.listing[3] = NameA \o SqlSuffix
    /\ AllParse(SubSeq(lastCall.listing, 1, 2))
    /\ SharedVersions(SubSeq(lastCall.listing, 1, 2)) # {}
    /\ lastCall.result.error = <<"Parse", "InvalidFilename">>

----------------------------------------------------------------------------
(* The two migration sources *)

\* C31: for every set of file names, migration_files of an Embedded source
\* and of an Fs source return the same names, namely the names whose suffix
\* is sql in any letter case.
C31_SourcesListTheSame ==
    lastCall.op = "migration_files"
    => /\ lastCall.result = MigrationFiles("Embedded", lastCall.names)
       /\ lastCall.result = MigrationFiles("Fs", lastCall.names)
       /\ \A n \in lastCall.names :
             Len(n) > Len(SqlSuffix) /\ n[Len(n) - 3] = ChDot
                /\ EqIgnoreAsciiCase(SubSeq(n, Len(n) - 2, Len(n)), SqlExtension)
             => n \in lastCall.result

----------------------------------------------------------------------------
(* The runner: what is skipped, in which order, and what the ledger keeps *)

\* C32: run reads the content of no migration whose version is in the
\* ledger, and a run of a catalog whose versions were all in the ledger
\* returns Ok without a read, also when the source cannot deliver the content
\* of its files.
C32_RecordedIsNotRead ==
    /\ \A i \in RunEvents({"read"}) : ~lastRun.events[i].recorded
    /\ runs > 0 /\ CatalogVersions(lastRun.catalog) \subseteq DOMAIN lastRun.before
       => /\ lastRun.result = "Ok"
          /\ RunEvents({"read", "exec", "insert"}) = {}
          /\ ledger = lastRun.before

\* a two-file catalog is run on a ledger that holds both versions while the
\* content of its second file cannot be read: Ok
C32_Witness ==
    /\ Len(lastRun.catalog) = 2
    /\ UniqueVersions(lastRun.catalog)
    /\ CatalogVersions(lastRun.catalog) \subseteq DOMAIN lastRun.before
    /\ lastRun.unreadable = {2}
    /\ lastRun.result = "Ok"


\* C33: within a run the catalog entries are taken in catalog order, one at a
\* time: an entry is looked up only after the entry before it was found in
\* the ledger or had its ledger row inserted, its SQL is read and executed
\* only after its own lookup found it unrecorded, and its row is inserted
\* right after its execution; for a catalog as from_source returns it the
\* versions executed are strictly ascending.
C33_InCatalogOrder ==
    LET ev == lastRun.events
        c == lastRun.catalog
    IN  /\ \A k \in 1..Len(ev) :
              /\ ev[k].op = "lookup"
                 => IF k = 1 THEN ev[k].idx = 1
                    ELSE /\ ev[k].idx = ev[k - 1].idx + 1
                         /\ \/ ev[k - 1].op = "lookup" /\ ev[k - 1].recorded
                            \/ ev[k - 1].op = "insert"
              /\ ev[k].op = "read"
                 => k > 1 /\ ev[k - 1].op = "lookup" /\ ev[k - 1].idx = ev[k].idx
                          /\ ~ev[k - 1].recorded
              /\ ev[k].op = "exec"
                 => k > 1 /\ ev[k - 1].op = "read" /\ ev[k - 1].idx = ev[k].idx
              /\ ev[k].op = "insert"
                 => k > 1 /\ ev[k - 1].op = "exec" /\ ev[k - 1].idx = ev[k].idx
              /\ ev[k].version = c[ev[k].idx].version
        /\ lastRun.result = "Ok" => {ev[k].idx : k \in RunEvents({"lookup"})} = 1..Len(c)
        /\ FromSource(c).ok /\ FromSource(c).migrations = c
           => \A k, l \in RunEvents({"exec"}) : k < l => ev[k].version < ev[l].version

\* the three bundled migrations are run on a ledger that holds version 2
\* only: 1 is executed and recorded, 2 is skipped, then 3 is executed
C33_Witness ==
    /\ Len(lastRun.catalog) = 3
    /\ lastRun.result = "Ok"
    /\ DOMAIN lastRun.before = {2}
    /\ {lastRun.events[k].version : k \in RunEvents({"exec"})} = {1, 3}


\* C34: after a run that returned Ok every version of its catalog is in the
\* ledger, whatever the ledger held before, and every catalog version that
\* was not in the ledger was executed in that run, also when it is lower
\* than a version the ledger held.
C34_OkMeansAllRecorded ==
    lastRun.result = "Ok"
    => /\ CatalogVersions(lastRun.catalog) \subseteq DOMAIN ledger
       /\ \A v \in CatalogVersions(lastRun.catalog) \ DOMAIN lastRun.before :
             \E k \in RunEvents({"exec"}) : lastRun.events[k].version = v
       /\ DOMAIN ledger = DOMAIN lastRun.before \cup CatalogVersions(lastRun.catalog)

\* version 1 is applied by a run on a ledger that held version 2 only
C34_Witness ==
    /\ lastRun.result = "Ok"
    /\ DOMAIN lastRun.before = {2}
    /\ lastRun.catalog = <<Migration(TRUE, 1, NameA)>>
    /\ DOMAIN ledger = {1, 2}

\* C35: no step deletes a ledger row or changes the name recorded for a
\* version, and the ledger table, once created, stays: the rows of the
\* ledger only grow.
C35_LedgerAppendOnly ==
    [][/\ ledgerTable => ledgerTable'
       /\ DOMAIN ledger \subseteq DOMAIN ledger'
       /\ \A v \in DOMAIN ledger : ledger'[v] = ledger[v]
       /\ ~ledgerTable => ledger = << >>]_vars

\* the third run, of the bundled migrations, added the rows of versions 2
\* and 3 to a ledger that held version 1 under the name it still has
C35_Witness ==
    /\ runs = 3
    /\ DOMAIN lastRun.before = {1}
    /\ DOMAIN ledger = {1, 2, 3}
    /\ ledger[1] = lastRun.before[1]

----------------------------------------------------------------------------
(* Db: accounts over time, their listing and its decoding *)

\* C36: over every step each account stays, with its id, parent_id,
\* currency, created_at and note; its row is left as it is except that
\* rename_account(id, n) gives the account with that id the name n and
\* close_account(id) sets the is_closed of the account with that id.
C36_AccountsOnlyRenamedOrClosed ==
    [][\A a \in accounts :
          \E b \in accounts' :
             /\ b.id = a.id
             /\ \/ b = a
                \/ /\ lastCall'.op = "rename_account"
                   /\ lastCall'.id = a.id
                   /\ b = [a EXCEPT !.name = lastCall'.input]
                \/ /\ lastCall'.op = "close_account"
                   /\ lastCall'.id = a.id
                   /\ b = [a EXCEPT !.is_closed = TRUE]]_vars

\* A2 was renamed while A1 and A3 exist: three accounts, one changed name
C36_Witness ==
    /\ lastCall.op = "rename_account"
    /\ lastCall.result[1] = "Ok"
    /\ Cardinality(accounts) = 3
    /\ Cardinality(accounts \ lastCall.pre) = 1
    /\ \A a \in accounts \ lastCall.pre : a.id = lastCall.id /\ a.name = lastCall.input

----------------------------------------------------------------------------
(* Db::list_accounts and Db::list_statements over the stored text *)

\* Uuid::parse_str, with two hexadecimal digits standing for the thirty-two:
\* the hyphenated form "h-h" that to_string writes and the simple form "hh",
\* in either letter case; the value is the digits in lower case
ParseUuid(text) ==
    LET digits == IF Len(text) = 3 /\ text[2] = ChMinus THEN <<text[1], text[3]>>
                  ELSE text
        hex(c) == IsDigit(c) \/ (97 <= ToAsciiLowercase(c) /\ ToAsciiLowercase(c) <= 102)
    IN  IF Len(digits) = 2 /\ \A i \in 1..2 : hex(digits[i])
        THEN Some([i \in 1..2 |-> ToAsciiLowercase(digits[i])])
        ELSE None

\* account_from_row that takes a parent_id that is no UUID for no parent
AccountFromRowForgiving(row) ==
    IF ParseUuid(row.id) = None THEN <<"InvalidId", row.id>>
    ELSE <<"Ok", [row EXCEPT !.id = ParseUuid(row.id)[1],
                             !.parent_id = IF row.parent_id = None THEN None
                                           ELSE ParseUuid(row.parent_id[1]),
                             !.is_closed = row.is_closed # 0]>>

\* account_from_row: the id, then the parent_id when it is not NULL
AccountFromRow(row) ==
    IF ParseUuid(row.id) = None THEN <<"InvalidId", row.id>>
    ELSE IF row.parent_id # None /\ ParseUuid(row.parent_id[1]) = None
    THEN <<"InvalidParentId", row.parent_id[1]>>
    ELSE <<"Ok", [row EXCEPT !.id = ParseUuid(row.id)[1],
                             !.parent_id = IF row.parent_id = None THEN None
                                           ELSE ParseUuid(row.parent_id[1]),
                             !.is_closed = row.is_closed # 0]>>

\* statement_from_row: the id, then the account_id, then the replaced_by
\* when it is not NULL
StatementFromRow(row) ==
    IF ParseUuid(row.id) = None THEN <<"InvalidId", row.id>>
    ELSE IF ParseUuid(row.account_id) = None THEN <<"InvalidAccountId", row.account_id>>
    ELSE IF row.replaced_by # None /\ ParseUuid(row.replaced_by[1]) = None
    THEN <<"InvalidReplacedById", row.replaced_by[1]>>
    ELSE <<"Ok", [row EXCEPT !.id = ParseUuid(row.id)[1],
                             !.account_id = ParseUuid(row.account_id)[1],
                             !.replaced_by = IF row.replaced_by = None THEN None
                                             ELSE ParseUuid(row.replaced_by[1])]>>

\* ORDER BY parent_id, name, id with the ids taken before the parents
AccountTextLessById(a, b) == LexLess(a.id, b.id)

\* ORDER BY parent_id, name, id on the stored text: NULL sorts first
AccountTextLess(a, b) ==
    \/ a.parent_id = None /\ b.parent_id # None
    \/ a.parent_id # None /\ b.parent_id # None /\ LexLess(a.parent_id[1], b.parent_id[1])
    \/ a.parent_id = b.parent_id /\ LexLess(a.name, b.name)
    \/ a.parent_id = b.parent_id /\ a.name = b.name /\ LexLess(a.id, b.id)

\* ORDER BY imported_at, id
StatementTextLess(a, b) ==
    \/ a.imported_at < b.imported_at
    \/ a.imported_at = b.imported_at /\ LexLess(a.id, b.id)

\* the rows of the accounts table in the order of LIST_ACCOUNTS_SQL
AccountsInOrder(rows) ==
    CHOOSE s \in [1..Cardinality(rows) -> rows] :
        \A i, j \in 1..Cardinality(rows) : i < j => AccountTextLess(s[i], s[j])

\* the rows of the statements table in the order of LIST_STATEMENTS_SQL
StatementsInOrder(rows) ==
    CHOOSE s \in [1..Cardinality(rows) -> rows] :
        \A i, j \in 1..Cardinality(rows) : i < j => StatementTextLess(s[i], s[j])

\* the loop over rows.next() of list_accounts: every row decoded, or the
\* error of the first row, in query order, that does not decode
DecodedAccounts(s) ==
    LET bad == {i \in 1..Len(s) : AccountFromRow(s[i])[1] # "Ok"}
    IN  IF bad = {} THEN <<"Ok", [i \in 1..Len(s) |-> AccountFromRow(s[i])[2]]>>
        ELSE AccountFromRow(s[Min(bad)])

\* the loop over rows.next() of list_statements
DecodedStatements(s) ==
    LET bad == {i \in 1..Len(s) : StatementFromRow(s[i])[1] # "Ok"}
    IN  IF bad = {} THEN <<"Ok", [i \in 1..Len(s) |-> StatementFromRow(s[i])[2]]>>
        ELSE StatementFromRow(s[Min(bad)])

\* INSERT INTO accounts through the connection, foreign keys off: the primary
\* key and UNIQUE(parent_id, name) hold
InsertAccount(row) ==
    /\ Migrated
    /\ \A a \in accounts : a.id # row.id
    /\ row.parent_id # None
       => \A a \in accounts : ~(a.parent_id = row.parent_id /\ a.name = row.name)
    /\ accounts' = accounts \cup {row}
    /\ lastCall' = [op |-> "insert"]
    /\ UNCHANGED <<migVars, dataDir, stmtDir, dbFile, statements, files, ingested,
                   calls, call>>

\* INSERT INTO statements through the connection, foreign keys off
InsertStatement(row) ==
    /\ Migrated
    /\ \A r \in statements : r.id # row.id
    /\ statements' = statements \cup {row}
    /\ lastCall' = [op |-> "insert"]
    /\ UNCHANGED <<migVars, dataDir, stmtDir, dbFile, accounts, files, ingested,
                   calls, call>>

\* db.list_accounts()
ListAccountsCall ==
    /\ Migrated
    /\ lastCall' = [op |-> "list_accounts", pre |-> accounts,
                    result |-> DecodedAccounts(AccountsInOrder(accounts))]
    /\ UNCHANGED <<migVars, storeVars>>

\* db.list_statements()
ListStatementsCall ==
    /\ Migrated
    /\ lastCall' = [op |-> "list_statements", pre |-> statements,
                    result |-> DecodedStatements(StatementsInOrder(statements))]
    /\ UNCHANGED <<migVars, storeVars>>

\* the ids a-1, a-2 and b-1 and the text z-z, which is no UUID; an account
\* is a root or has a-1, b-1 or z-z as parent
ListNext ==
    \/ ~dbFile /\ InitCall(<<"run", [i \in 1..Len(GoodBundle) |-> "ok"]>>)
    \/ \E id \in {<<97, ChMinus, 49>>, <<97, ChMinus, 50>>, <<98, ChMinus, 49>>,
                  <<122, ChMinus, 122>>},
          parent_id \in {None, Some(<<97, ChMinus, 49>>), Some(<<98, ChMinus, 49>>),
                         Some(<<122, ChMinus, 122>>)},
          name \in Names :
          /\ id = <<122, ChMinus, 122>> => parent_id = None /\ name = NameA
          /\ InsertAccount([AccountRow(id, parent_id, name, "USD", None)
                               EXCEPT !.is_closed = 0])
    \/ \E id \in {<<49, ChMinus, 49>>, <<122, ChMinus, 122>>},
          account_id \in {<<97, ChMinus, 49>>, <<122, ChMinus, 122>>},
          replaced_by \in {None, Some(<<122, ChMinus, 122>>)} :
          /\ id = <<122, ChMinus, 122>> => replaced_by = None
          /\ InsertStatement([id |-> id, institution |-> "Chase",
                              account_id |-> account_id, file_hash |-> Sha256Hex(BytesA),
                              file_size |-> Len(BytesA), imported_at |-> 1,
                              replaced_by |-> replaced_by])
    \/ ListAccountsCall
    \/ ListStatementsCall

SpecList == StoreInit /\ [][ListNext]_vars

\* C37: a list_accounts that succeeds returns every account row once, the
\* accounts without a parent before all accounts with one, the accounts with
\* a parent grouped by parent id in ascending order, within one parent in
\* ascending order of name, and for equal names in ascending order of id.
C37_ListedByParentNameId ==
    lastCall.op = "list_accounts" /\ lastCall.result[1] = "Ok"
    => LET s == lastCall.result[2]
       IN  /\ Len(s) = Cardinality(lastCall.pre)
           /\ \A a \in lastCall.pre : \E i \in 1..Len(s) : AccountFromRow(a) = <<"Ok", s[i]>>
           /\ \A i, j \in 1..Len(s) :
                 i < j
                 => /\ s[i].id # s[j].id
                    /\ s[j].parent_id = None => s[i].parent_id = None
                    /\ s[i].parent_id # None /\ s[j].parent_id # None
                       => ~LexLess(s[j].parent_id[1], s[i].parent_id[1])
                    /\ s[i].parent_id = s[j].parent_id
                       => /\ ~LexLess(s[j].name, s[i].name)
                          /\ s[i].name = s[j].name => LexLess(s[i].id, s[j].id)

\* three accounts are listed: root b-1 named a, root a-2 named b and a-1
\* named a under b-1, in this order
C37_Witness ==
    /\ lastCall.op = "list_accounts"
    /\ lastCall.result[1] = "Ok"
    /\ Len(lastCall.result[2]) = 3
    /\ lastCall.result[2][1].id = <<98, 49>>
    /\ lastCall.result[2][2].id = <<97, 50>>
    /\ lastCall.result[2][3].parent_id = Some(<<98, 49>>)


\* C38: list_accounts and list_statements return a list only when every row
\* decodes, and then every row is in it; otherwise they fail with the error
\* of a row that does not decode: InvalidId with its text for a row whose id
\* is no UUID, whatever its other columns; InvalidParentId for an account
\* whose id is one and whose parent_id is none; InvalidAccountId for a
\* statement whose id is one and whose account_id is none;
\* InvalidReplacedById for a statement whose id and account_id are UUIDs and
\* whose replaced_by is none.
C38_MalformedUuidIsAnError ==
    LET ok(text) == ParseUuid(text) # None
        okOpt(opt) == opt = None \/ ParseUuid(opt[1]) # None
        kinds == IF lastCall.op = "list_accounts"
                 THEN {IF ~ok(a.id) THEN <<"InvalidId", a.id>>
                       ELSE IF ~okOpt(a.parent_id) THEN <<"InvalidParentId", a.parent_id[1]>>
                       ELSE <<"Ok">> : a \in lastCall.pre}
                 ELSE {IF ~ok(r.id) THEN <<"InvalidId", r.id>>
                       ELSE IF ~ok(r.account_id) THEN <<"InvalidAccountId", r.account_id>>
                       ELSE IF ~okOpt(r.replaced_by)
                       THEN <<"InvalidReplacedById", r.replaced_by[1]>>
                       ELSE <<"Ok">> : r \in lastCall.pre}
    IN  lastCall.op \in {"list_accounts", "list_statements"}
        => IF kinds \subseteq {<<"Ok">>}
           THEN /\ lastCall.result[1] = "Ok"
                /\ Len(lastCall.result[2]) = Cardinality(lastCall.pre)
           ELSE /\ lastCall.result \in kinds \ {<<"Ok">>}
                /\ Len(lastCall.result) = 2

\* the one statement has a UUID as id and neither as account_id nor as
\* replaced_by: InvalidAccountId
C38_Witness ==
    /\ lastCall.op = "list_statements"
    /\ Cardinality(lastCall.pre) = 1
    /\ \A r \in lastCall.pre : r.replaced_by = Some(<<122, ChMinus, 122>>)
    /\ lastCall.result = <<"InvalidAccountId", <<122, ChMinus, 122>>>>

----------------------------------------------------------------------------
(* UserDataManager::init and UserDataManager::delete_db *)

\* init and delete_db at any time before and after one add_statement call
\* that meets no I/O failure, as long as no migration has been executed
\* MaxRuns times on one database file; init meets a failing create_dir_all
\* or Connection::open, or runs the migrations
UserDataNext ==
    \/ \E o \in PrepareOutcomes :
          (\A v \in AllVersions : applied[v] < MaxRuns) /\ InitCall(o)
    \/ \E o \in {"ok", "denied"} : DeleteDb(o)
    \/ CreateAccount("A1", None, NameA, "USD", None, "ok")
    \/ \E src \in {s \in Sources : s.exists /\ s.ext = Some(ExtPdf)} :
          calls = 0 /\ Begin(1, src, [institution |-> "Chase", account_id |-> "A1",
                         replaced_by |-> None])
    \/ \E o \in PrepareOutcomes : o[1] = "run" /\ Prepare(1, o)
    \/ OpenSource(1)
    \/ CreateTemp(1, TRUE)
    \/ \E k \in 0..2 : Copy(1, "none", k)
    \/ Measure(1, TRUE)
    \/ DupCheck(1, TRUE)
    \/ Rename(1, TRUE)
    \/ \E o \in {"ok", "insert"} : Insert(1, o)
    \/ Cleanup(1, TRUE)

SpecUserData == StoreInit /\ [][UserDataNext]_vars

\* C39: delete_db returns true exactly when the database file was there and
\* is removed, and false when there was none, so that after a delete_db that
\* returned there is no database file and another one returns false; it
\* leaves the data directory, the statements directory and every file in it
\* as they are. An init that succeeds leaves the two directories and a
\* migrated database file, and an init on a directory that is initialised
\* succeeds, unless it cannot reach the directories or open the file, and
\* changes no file, ledger row or table row.
C39_InitAndDeleteIdempotent ==
    /\ lastCall.op = "delete_db"
       => /\ lastCall.result = <<"Ok", TRUE>> <=> lastCall.pre.dbFile /\ ~dbFile
          /\ ~lastCall.pre.dbFile => lastCall.result = <<"Ok", FALSE>>
          /\ lastCall.result[1] = "Ok" => ~dbFile /\ DeleteDbResult(dbFile, "ok") = <<"Ok", FALSE>>
          /\ lastCall.result[1] # "Ok" => dbFile /\ ledger = lastCall.pre.ledger
                                                 /\ statements = lastCall.pre.statements
          /\ files = lastCall.pre.files
          /\ dataDir = lastCall.pre.dataDir
          /\ stmtDir = lastCall.pre.stmtDir
    /\ lastCall.op = "init"
       => /\ lastCall.result = <<"Ok">> => dataDir /\ stmtDir /\ dbFile /\ Migrated
          /\ files = lastCall.pre.files
          /\ statements = lastCall.pre.statements
          /\ /\ lastCall.pre.dataDir /\ lastCall.pre.stmtDir /\ lastCall.pre.dbFile
             /\ BundleVersions \subseteq DOMAIN lastCall.pre.ledger
             /\ lastCall.met = "run"
             => /\ lastCall.result = <<"Ok">>
                /\ ledger = lastCall.pre.ledger

\* delete_db returned true on a store that holds a statement file, which is
\* still there
C39_Witness ==
    /\ lastCall.op = "delete_db"
    /\ lastCall.result = <<"Ok", TRUE>>
    /\ lastCall.pre.statements # {}
    /\ StoredFiles(files) # {}
    /\ statements = {}

=============================================================================
